---- MODULE Spec2Model ----
(***************************************************************************)
(* The package/run pipeline of typhonjs: the plugin event bus              *)
(* (TyphonPluginManager), the build command and the Packager, the run      *)
(* command and the TyphRunner.  One CLI process runs one command; the disk *)
(* (archives, directories, the vendor manifest) outlives the process.      *)
(* Spec is the command line; SpecLib is a program calling the exported     *)
(* functions directly; SpecVendor is a program using the VendorStore.      *)
(*                                                                         *)
(* Strings the code inspects character by character (file names, project   *)
(* names, entry points) are tuples of one-character strings; strings the   *)
(* code only compares are TLA+ strings.                                    *)
(***************************************************************************)
EXTENDS Integers, Sequences, FiniteSets, TLC

VARIABLES
    project,      \* the Project of this process: typh.config.js as loaded, and the source tree
    archives,     \* disk: path -> what is there (nothing, a directory, a zip file)
    dirs,         \* disk: directories created by the pipeline
    extracted,    \* disk: files extracted into cache directories
    commandsRun,  \* CLI processes finished so far
    pc,           \* position of the current process
    cmd,          \* command of the current process: "none" | "build" | "run"
    outcome,      \* "pending" | "ok" | "refused" | "failed": how the command ended
    plugins,      \* TyphonPluginManager.plugins, in insertion order
    invoked,      \* names of the plugins whose handler the last processEvent invoked
    published,    \* events published so far by this process
    canceled,     \* what the last processEvent returned
    loading,      \* what registerPlugins found and did: declaration file, load() calls, dropped rejections
    zip,          \* the Packager's in-memory AdmZip entry list
    packageCalls, \* invocations of Packager.package() by this process
    effects,      \* what this process has done so far to the disk and the source tree
    runner,       \* the TyphRunner's locals and the two operations it launches
    vendorFile,   \* disk: the dependency map of ~/.typhon/vendor/package.json, or that it is absent
    vendorMap,    \* VendorStore.vendorMap.dependencies of the process's VendorStore
    call,         \* the last call a user of the library made, and what it returned
    textFiles,    \* disk: the text files under the cache directory and the working directory
    race          \* two Runner processes that install at the same time

vars == <<project, archives, dirs, extracted, commandsRun, pc, cmd, outcome, plugins,
          invoked, published, canceled, loading, zip, packageCalls, effects, runner, vendorFile,
          vendorMap, call, textFiles, race>>

\* the state of the command-line pipeline
cliVars == <<project, archives, dirs, extracted, commandsRun, pc, cmd, outcome, plugins,
             invoked, published, canceled, loading, zip, packageCalls, effects, runner>>
vendorVars == <<vendorFile, vendorMap>>
\* what only a program using the library, or a second process, touches
libVars == <<call, textFiles, race>>
diskVars == <<archives, dirs, extracted>>
pluginVars == <<plugins, invoked, published, canceled, loading>>
packagerVars == <<zip, packageCalls, effects>>

----------------------------------------------------------------------------
(* Bounds *)

MaxPlugins == 2
MaxCommands == 2
MaxDeps == 2

----------------------------------------------------------------------------
(* Strings as character tuples *)

S_typh == <<".", "t", "y", "p", "h">>
S_demo == <<"d", "e", "m", "o">>
S_target == <<"t", "a", "r", "g", "e", "t">>
S_cached == <<"-", "c", "a", "c", "h", "e", "d">>
S_sep == <<"/">>

\* a check for the suffix that accepts it anywhere in the name
endsWithAnywhere(s, suffix) ==
    \E i \in 1..Len(s) :
        /\ i + Len(suffix) - 1 <= Len(s)
        /\ SubSeq(s, i, i + Len(suffix) - 1) = suffix

\* String.prototype.endsWith
endsWith(s, suffix) ==
    /\ Len(s) >= Len(suffix)
    /\ SubSeq(s, Len(s) - Len(suffix) + 1, Len(s)) = suffix

RECURSIVE split(_, _)
\* String.prototype.split on a one-character separator
split(s, c) ==
    IF \A i \in 1..Len(s) : s[i] # c
    THEN <<s>>
    ELSE LET i == CHOOSE j \in 1..Len(s) : s[j] = c /\ \A k \in 1..(j - 1) : s[k] # c
         IN  <<SubSeq(s, 1, i - 1)>> \o split(SubSeq(s, i + 1, Len(s)), c)

RECURSIVE join(_, _)
\* Array.prototype.join
join(parts, sep) ==
    IF parts = <<>> THEN <<>>
    ELSE IF Len(parts) = 1 THEN parts[1]
    ELSE parts[1] \o sep \o join(Tail(parts), sep)

\* the non-empty elements of a list of strings, in order
nonEmpty(parts) == SelectSeq(parts, LAMBDA x : x # <<>>)

\* path.normalize (posix) of a path that has no "." or ".." segment
pathNormalize(p) ==
    IF p = <<>> THEN <<".">>
    ELSE LET isAbsolute == p[1] = "/"
             trailingSeparator == p[Len(p)] = "/"
             body == join(nonEmpty(split(p, "/")), S_sep)
         IN  IF body = <<>>
             THEN (IF isAbsolute THEN S_sep ELSE IF trailingSeparator THEN <<".", "/">> ELSE <<".">>)
             ELSE (IF isAbsolute THEN S_sep ELSE <<>>) \o body
                  \o (IF trailingSeparator THEN S_sep ELSE <<>>)

\* path.join (posix)
pathJoin(a, b) ==
    LET joined == join(nonEmpty(<<a, b>>), S_sep)
    IN  IF joined = <<>> THEN <<".">> ELSE pathNormalize(joined)

\* PackagePath.replace
PackagePathReplace(main) ==
    IF main = <<>> THEN main
    ELSE LET parts == split(main, ".")
         IN  IF Len(parts) <= 1 THEN main
             ELSE LET fileName == parts[Len(parts)]
                      dirPath == join(SubSeq(parts, 1, Len(parts) - 1), S_sep)
                  IN  pathJoin(dirPath, fileName)

----------------------------------------------------------------------------
(* Configuration values *)

\* JavaScriptConfiguration.getBoolean over the values a config file can hold:
\* a boolean, a string, a number or nothing
getBoolean(value, defaultValue) ==
    CASE value = "true" -> TRUE
      [] value = "false" -> FALSE
      [] value \in {"str:true", "str:1", "str:yes"} -> TRUE
      [] value \in {"str:false", "str:0", "str:no"} -> FALSE
      [] value = "num:0" -> FALSE
      [] value = "num:1" -> TRUE
      [] OTHER -> defaultValue

\* File contents: JSON text (the members of the object it denotes, in order)
\* or bytes that are no JSON
Bytes == [valid |-> FALSE, members |-> <<>>]

\* JSON.stringify of the build info: members in insertion order, a member
\* whose value is undefined is left out
JSONstringify(info) ==
    [valid |-> TRUE,
     members |->
        <<<<"name", info.name>>, <<"version", info.version>>, <<"main", info.main>>>>
        \o (IF info.pm = "undefined" THEN <<>> ELSE <<<<"pm", info.pm>>>>)
        \o <<<<"deps", info.deps>>>>]

\* the value of member `key` in a parsed JSON object, "undefined" when absent
member(json, key) ==
    IF \E i \in 1..Len(json) : json[i][1] = key
    THEN json[CHOOSE i \in 1..Len(json) : json[i][1] = key][2]
    ELSE "undefined"

\* JSON.parse read as a BuildInfo (it throws on text that is no JSON)
JSONparse(text) ==
    LET json == text.members
    IN  [name |-> member(json, "name"), version |-> member(json, "version"),
         main |-> member(json, "main"), pm |-> member(json, "pm"),
         deps |-> member(json, "deps")]

----------------------------------------------------------------------------
(* Inputs *)

\* archive entry names and source paths are lists of path segments
TyphonBuildFile == <<"typhbuild.config.json">>

S_index_js == <<"i", "n", "d", "e", "x", ".", "j", "s">>
S_com_Main == <<"c", "o", "m", ".", "M", "a", "i", "n">>
S_app == <<"a", "p", "p">>
S_ext_typh == <<"e", "x", "t">> \o S_typh
S_bare_typh == <<"b", "a", "r", "e">> \o S_typh
S_dir_typh == <<"d", "i", "r">> \o S_typh
S_gone_typh == <<"g", "o", "n", "e">> \o S_typh
S_ext_zip == <<"e", "x", "t", ".", "z", "i", "p">>
S_ext_typhx == S_ext_typh \o <<"x">>
S_bun_typh == <<"b", "u", "n">> \o S_typh
S_nopm_typh == <<"n", "o", "p", "m">> \o S_typh
S_dot_typh == <<"d", "o", "t">> \o S_typh
S_dot_demo == <<".", "/">> \o S_demo

PluginNames == {"p1", "p2"}
\* a plugin: its identity, whether its handler sets the event's canceled flag,
\* how its load() ends ("ok", "throws", or "rejects" for a promise that
\* rejects), and whether its handler throws
Healthy == [name : PluginNames, cancels : BOOLEAN, load : {"ok"}, throws : {FALSE}]
Faulty == {[name |-> "p1", cancels |-> FALSE, load |-> "throws", throws |-> FALSE],
           [name |-> "p2", cancels |-> FALSE, load |-> "rejects", throws |-> FALSE],
           [name |-> "p1", cancels |-> FALSE, load |-> "ok", throws |-> TRUE]}
Plugins == Healthy \cup Faulty
RECURSIVE SeqsUpTo(_, _)
SeqsUpTo(S, n) ==
    IF n = 0 THEN {<<>>}
    ELSE LET shorter == SeqsUpTo(S, n - 1)
         IN  shorter \cup {Append(q, x) : q \in {r \in shorter : Len(r) = n - 1}, x \in S}
\* what plugins.typh.js can be: no file, a file that fails to evaluate, or a
\* file that exports a `plugins` list
Declarations ==
    {[exists |-> FALSE, broken |-> FALSE, plugins |-> <<>>],
     [exists |-> TRUE, broken |-> TRUE, plugins |-> <<>>]}
    \cup {[exists |-> TRUE, broken |-> FALSE, plugins |-> l] :
              l \in SeqsUpTo(Plugins, MaxPlugins)}

LeftPad == <<[name |-> "left-pad", range |-> <<"^", "1", ".", "3", ".", "0">>]>>
\* a code root with a test directory, a resource root with a file named test
SourceTree == {[root |-> "javascript", path |-> <<"index.js">>],
               [root |-> "javascript", path |-> <<"test", "spec.js">>],
               [root |-> "resources", path |-> <<"assets", "test">>]}
\* a tree without tests, with nested directories
SourceTreeNoTests == {[root |-> "javascript", path |-> <<"index.js">>],
                      [root |-> "javascript", path |-> <<"lib", "util.js">>],
                      [root |-> "resources", path |-> <<"assets", "logo.png">>]}
\* a tree with a resource file that has the name the Runner looks up, and one
\* that has the name of the manifest entry the Packager adds
SourceTreeWithBuildFile == {[root |-> "javascript", path |-> <<"index.js">>],
                            [root |-> "resources", path |-> TyphonBuildFile],
                            [root |-> "resources", path |-> <<"typhon.build.json">>]}
Prj(name, main, pm, deps, plugin, files) ==
    [name |-> name, version |-> "0.0.1", main |-> main, pm |-> pm, deps |-> deps,
     plugin |-> plugin, files |-> files]
\* what `new Project(process.cwd())` can find: buildinfo.plugin is a boolean, a
\* string or missing; buildinfo.packageManager is supported, unsupported or missing
Projects ==
    {Prj(S_demo, S_index_js, "npm", LeftPad, "undefined", SourceTree),
     Prj(S_demo, S_index_js, "npm", LeftPad, "true", SourceTree),
     Prj(S_demo, S_com_Main, "yarn", <<>>, "false", SourceTreeWithBuildFile),
     Prj(S_app, S_index_js, "bun", <<>>, "str:yes", {}),
     Prj(S_app, S_com_Main, "undefined", LeftPad, "str:no", SourceTreeNoTests)}
NoProject ==
    [name |-> <<>>, version |-> "", main |-> <<>>, pm |-> "undefined", deps |-> <<>>,
     plugin |-> "undefined", files |-> {}]

\* the <file> arguments a run command is given
RunArgs ==
    {S_ext_typh, S_bare_typh, S_dir_typh, S_gone_typh, S_ext_zip, S_ext_typhx,
     S_bun_typh, S_nopm_typh, S_dot_typh,
     pathJoin(S_target, S_demo \o S_typh), pathJoin(S_target, S_app \o S_typh)}

Absent == [kind |-> "absent", entries |-> <<>>]
Directory == [kind |-> "dir", entries |-> <<>>]
ZipFile(entries) == [kind |-> "zip", entries |-> entries]

ExtInfo ==
    [name |-> S_demo, version |-> "0.0.1", main |-> S_index_js, pm |-> "npm",
     deps |-> LeftPad]
\* an archive of a payload file and the manifest, under the name the Runner reads
Runnable(info) ==
    ZipFile(<<[entryName |-> <<"index.js">>, data |-> Bytes],
              [entryName |-> TyphonBuildFile, data |-> JSONstringify(info)]>>)

\* the disk before the first command: archives somebody else produced
InitialDisk ==
    [p \in RunArgs |->
        CASE p = S_ext_typh -> Runnable(ExtInfo)
          [] p = S_bun_typh -> Runnable([ExtInfo EXCEPT !.name = S_app, !.pm = "bun"])
          [] p = S_nopm_typh -> Runnable([ExtInfo EXCEPT !.pm = "undefined"])
          [] p = S_dot_typh -> Runnable([ExtInfo EXCEPT !.name = S_dot_demo, !.deps = <<>>])
          [] p = S_ext_zip ->
               ZipFile(<<[entryName |-> TyphonBuildFile, data |-> JSONstringify(ExtInfo)]>>)
          [] p = S_ext_typhx ->
               ZipFile(<<[entryName |-> TyphonBuildFile, data |-> JSONstringify(ExtInfo)]>>)
          [] p = S_bare_typh -> ZipFile(<<[entryName |-> <<"index.js">>, data |-> Bytes]>>)
          [] p = S_dir_typh -> Directory
          [] OTHER -> Absent]

----------------------------------------------------------------------------
(* TyphonPluginManager *)

\* Collection.set (a Map keyed by plugin name): an existing key keeps its
\* place, a new key goes last
CollectionSet(reg, plugin) ==
    IF \E i \in 1..Len(reg) : reg[i].name = plugin.name
    THEN [i \in 1..Len(reg) |-> IF reg[i].name = plugin.name THEN plugin ELSE reg[i]]
    ELSE Append(reg, plugin)

\* a value that was not given, or a file that is not there
Undefined == "undefined"

\* nothing loaded yet
NoLoading == [exists |-> FALSE, loads |-> <<>>, unhandled |-> FALSE, threw |-> FALSE]

\* a configuration loader for which a missing file is an error
loadConfigMissingIsError(declaration, defaults) ==
    [thrown |-> ~declaration.exists \/ declaration.broken,
     config |-> declaration.plugins]

\* JavaScriptConfiguration.loadConfig: the defaults when the file cannot be
\* found, an error when it cannot be evaluated, what it exports otherwise
loadConfig(declaration, defaults) ==
    IF ~declaration.exists THEN [thrown |-> FALSE, config |-> defaults]
    ELSE IF declaration.broken THEN [thrown |-> TRUE, config |-> defaults]
    ELSE [thrown |-> FALSE, config |-> declaration.plugins]

\* registerPlugin: load() is called and its result dropped, then the plugin is
\* put in the registry; a load() that throws leaves the registry as it was
registerPlugin(st, plugin) ==
    IF plugin.load = "throws"
    THEN [st EXCEPT !.thrown = TRUE, !.loads = Append(@, plugin.name)]
    ELSE [plugins |-> CollectionSet(st.plugins, plugin),
          thrown |-> FALSE,
          loads |-> Append(st.loads, plugin.name),
          unhandled |-> st.unhandled \/ plugin.load = "rejects"]

RECURSIVE registerEach(_, _)
\* the loop of registerPlugins: every plugin of the list in order, up to the
\* first one that throws
registerEach(st, list) ==
    IF list = <<>> \/ st.thrown THEN st
    ELSE registerEach(registerPlugin(st, Head(list)), Tail(list))

\* registerPlugins: the declaration is loaded with an empty list as default
registerPlugins(reg, declaration) ==
    LET config == loadConfig(declaration, <<>>)
        start == [plugins |-> reg, thrown |-> config.thrown, loads |-> <<>>,
                  unhandled |-> FALSE]
    IN  registerEach(start, config.config)

\* plugin.emit: the plugin's listeners run; the value is whether they set the
\* canceled flag of the event context
emit(plugin, key) == plugin.cancels

\* plugin.emit throws when a listener throws
emitThrows(plugin, key) == plugin.throws

\* processPluginEvent
processPluginEvent(plugin, key) ==
    [result |-> TRUE, invoked |-> <<plugin.name>>, flagged |-> emit(plugin, key),
     thrown |-> emitThrows(plugin, key)]

\* a dispatcher whose fall-through result is "cancelled"
processEventDefaultTrue(reg, key) ==
    IF reg = <<>>
    THEN [result |-> TRUE, invoked |-> <<>>, flagged |-> FALSE, thrown |-> FALSE]
    ELSE processPluginEvent(reg[1], key)

\* processEvent: the loop returns from its first iteration
processEvent(reg, key) ==
    IF reg = <<>>
    THEN [result |-> FALSE, invoked |-> <<>>, flagged |-> FALSE, thrown |-> FALSE]
    ELSE processPluginEvent(reg[1], key)

\* a test that lets the failure of the plugin out
testWithoutCatch(reg, plugin) ==
    LET ev == processPluginEvent(plugin, "test")
        failed == plugin.load # "ok" \/ ev.thrown
    IN  [thrown |-> failed, ok |-> ~failed, error |-> Undefined,
         invoked |-> IF plugin.load = "ok" THEN ev.invoked ELSE <<>>,
         plugins |-> reg]

\* TyphonPluginManager.test: load() is awaited, then the `test` event goes to
\* this plugin alone; whatever is thrown on the way is caught and returned
test(reg, plugin) ==
    IF plugin.load # "ok"
    THEN [thrown |-> FALSE, ok |-> FALSE, error |-> plugin.load,
          invoked |-> <<>>, plugins |-> reg]
    ELSE LET ev == processPluginEvent(plugin, "test")
         IN  IF ev.thrown
             THEN [thrown |-> FALSE, ok |-> FALSE, error |-> "handler throws",
                   invoked |-> ev.invoked, plugins |-> reg]
             ELSE [thrown |-> FALSE, ok |-> TRUE, error |-> Undefined,
                   invoked |-> ev.invoked, plugins |-> reg]

----------------------------------------------------------------------------
(* VendorStore *)

\* a dependency map is the list of its entries in insertion order, as the keys
\* of a JavaScript object are; vendor/package.json is absent or holds one
NoVendorFile == [exists |-> FALSE, dependencies |-> <<>>]

\* the map a new VendorStore starts with
NewVendorMap == <<>>

\* position of the name in a dependency map, 0 when it has none
depIndex(map, name) ==
    IF \E i \in 1..Len(map) : map[i].name = name
    THEN CHOOSE i \in 1..Len(map) : map[i].name = name
    ELSE 0

\* VendorStore.addDependency: vendorMap.dependencies[dependency] = version
addDependency(map, dependency, version) ==
    LET i == depIndex(map, dependency)
        entry == [name |-> dependency, range |-> version]
    IN  IF i = 0 THEN Append(map, entry) ELSE [map EXCEPT ![i] = entry]

RECURSIVE addDependencies(_, _)
\* VendorStore.addDependencies: addDependency for each, in order
addDependencies(map, dependencies) ==
    IF dependencies = <<>> THEN map
    ELSE addDependencies(addDependency(map, Head(dependencies).name,
                                       Head(dependencies).range),
                         Tail(dependencies))

\* VendorStore.write: package.json is replaced by the serialized map
write(map) == [exists |-> TRUE, dependencies |-> map]

\* VendorStore.ensure: package.json is written when absent, and the map is then
\* replaced by what package.json holds
ensure(file, map) ==
    LET onDisk == IF ~file.exists THEN write(map) ELSE file
    IN  [file |-> onDisk, map |-> onDisk.dependencies]

----------------------------------------------------------------------------
(* One CLI process *)

\* the null of getInstallCommand
NoCommand == [bin |-> "null", flag |-> "", dir |-> <<>>, deps |-> <<>>]
\* no main file spawned
NoMain == [file |-> <<>>, NODE_PATH |-> <<>>]

\* no text file written, no second process
NoFiles == <<>>
NoRace == [start |-> NoVendorFile, procs |-> <<>>]

\* no library call made yet
NoCall == [fn |-> "none", args |-> <<>>, result |-> <<>>]

NoInfo ==
    [name |-> <<>>, version |-> "", main |-> <<>>, pm |-> "undefined", deps |-> <<>>]

\* a TyphRunner that has not run anything
NewRunner ==
    [file |-> <<>>, opened |-> FALSE, entries |-> <<>>, manifestRead |-> FALSE,
     buildInfo |-> NoInfo, dirPath |-> <<>>, extract |-> "idle", install |-> "idle",
     installCmd |-> NoCommand, main |-> "idle", mainCmd |-> NoMain]

\* a CLI process that has not loaded anything
InitCli ==
    /\ project = NoProject
    /\ archives = InitialDisk
    /\ dirs = {}
    /\ extracted = {}
    /\ commandsRun = 0
    /\ pc = "load"
    /\ cmd = "none"
    /\ outcome = "pending"
    /\ plugins = <<>>
    /\ invoked = <<>>
    /\ published = <<>>
    /\ canceled = FALSE
    /\ loading = NoLoading
    /\ zip = <<>>
    /\ packageCalls = 0
    /\ effects = {}
    /\ runner = NewRunner

Init ==
    /\ InitCli
    /\ vendorFile = NoVendorFile
    /\ vendorMap = NewVendorMap
    /\ call = NoCall
    /\ textFiles = NoFiles
    /\ race = NoRace

\* loadCommands: the registry is filled from the working directory's declaration
LoadCommands ==
    /\ pc = "load"
    /\ \E d \in Declarations :
         LET st == registerPlugins(plugins, d)
         IN  /\ plugins' = st.plugins
             /\ loading' = [exists |-> d.exists, loads |-> st.loads,
                            unhandled |-> st.unhandled,
                            threw |-> st.thrown /\ st.loads # <<>>]
             /\ IF st.thrown
                THEN pc' = "exit" /\ outcome' = "failed"
                ELSE pc' = "ready" /\ outcome' = outcome
    /\ UNCHANGED <<vendorVars, libVars>>
    /\ UNCHANGED <<project, diskVars, commandsRun, cmd, invoked, published,
                   canceled, packagerVars, runner>>

\* the runtime ends the process because of a rejection nobody handles; when it
\* does so, if at all, is the runtime's choice
UnhandledRejection ==
    /\ loading.unhandled
    /\ pc \notin {"load", "ready", "exit"}
    /\ pc' = "exit"
    /\ outcome' = "failed"
    /\ UNCHANGED <<vendorVars, libVars>>
    /\ UNCHANGED <<project, diskVars, commandsRun, cmd, pluginVars, packagerVars, runner>>

----------------------------------------------------------------------------
(* build *)

\* a build command that publishes the event and packages whatever it returns
BuildExecuteIgnoresCancel ==
    /\ pc = "ready"
    /\ cmd' = "build"
    /\ \E prj \in Projects : project' = prj
    /\ LET ev == processEvent(plugins, "build")
       IN  /\ invoked' = ev.invoked
           /\ published' = Append(published, "build")
           /\ canceled' = ev.result
    /\ pc' = "validateProject"
    /\ packageCalls' = packageCalls + 1
    /\ zip' = <<>>
    /\ UNCHANGED <<vendorVars, libVars>>
    /\ UNCHANGED <<diskVars, commandsRun, outcome, plugins, loading, effects, runner>>

\* BuildCommand.execute up to the call of package()
BuildExecute ==
    /\ pc = "ready"
    /\ cmd' = "build"
    /\ \E prj \in Projects : project' = prj
    /\ LET ev == processEvent(plugins, "build")
       IN  /\ invoked' = ev.invoked
           /\ published' = Append(published, "build")
           /\ canceled' = (ev.result /\ ~ev.thrown)
           /\ IF ev.thrown
              THEN /\ pc' = "exit"
                   /\ outcome' = "failed"
                   /\ packageCalls' = packageCalls
              ELSE IF ev.result
              THEN /\ pc' = "exit"
                   /\ outcome' = "ok"
                   /\ packageCalls' = packageCalls
              ELSE /\ pc' = "validateProject"
                   /\ outcome' = outcome
                   /\ packageCalls' = packageCalls + 1
    /\ zip' = <<>>
    /\ UNCHANGED <<vendorVars, libVars>>
    /\ UNCHANGED <<diskVars, commandsRun, plugins, loading, effects, runner>>

(* Packager *)

\* AdmZip.getEntry: the position of the entry of that name, 0 when there is none
getEntry(entries, entryName) ==
    IF \E i \in 1..Len(entries) : entries[i].entryName = entryName
    THEN CHOOSE i \in 1..Len(entries) : entries[i].entryName = entryName
    ELSE 0

\* an archive that takes a second entry of a name it already holds
addFileAppends(entries, entryName, data) ==
    Append(entries, [entryName |-> entryName, data |-> data])

\* AdmZip.addFile: an entry of that name is updated, otherwise one is appended
addFile(entries, entryName, data) ==
    LET i == getEntry(entries, entryName)
        entry == [entryName |-> entryName, data |-> data]
    IN  IF i = 0 THEN Append(entries, entry) ELSE [entries EXCEPT ![i] = entry]

\* the directory a source root is: src/main/javascript, src/main/resources
sourceDir(root) == <<"src", "main", root>>

\* jetpack.findAsync(sourceDir, "**/*"): the files below the root, each by its
\* path from the working directory
find(files, root) == {sourceDir(root) \o f.path : f \in {g \in files : g.root = root}}

\* String.includes on paths, segment by segment: the fragment's segments occur
\* in a row
includes(filePath, fragment) ==
    \E i \in 0..(Len(filePath) - Len(fragment)) :
        SubSeq(filePath, i + 1, i + Len(fragment)) = fragment

\* normalizedPath.includes("/test/"): a segment "test" between two others
includesTestDir(filePath) ==
    \E i \in 2..(Len(filePath) - 1) : filePath[i] = "test"

\* the options a Packager has when none are given
DefaultOptions == [excludeTests |-> TRUE, ignore |-> {}]

\* Packager.isIgnored as it was: an ignore pattern occurs within the path, or
\* tests are excluded and the path goes through a directory "test"
isIgnoredEarlier(filePath, options) ==
    \/ \E pattern \in options.ignore : includes(filePath, pattern)
    \/ options.excludeTests /\ includesTestDir(filePath)

\* Packager.isIgnored: the path is one of the ignore patterns, or tests are
\* excluded and the path goes through a directory "test"
isIgnored(filePath, options) ==
    \/ filePath \in options.ignore
    \/ options.excludeTests /\ includesTestDir(filePath)

\* path.relative(from, to) of two paths from the working directory
RECURSIVE pathRelative(_, _)
pathRelative(from, to) ==
    IF from # <<>> /\ to # <<>> /\ Head(from) = Head(to)
    THEN pathRelative(Tail(from), Tail(to))
    ELSE [i \in 1..Len(from) |-> ".."] \o to

\* an archiver that stores every file under its path from the working directory
RECURSIVE addFilesToZipKeepsPrefix(_, _, _)
addFilesToZipKeepsPrefix(entries, files, sourceDirectory) ==
    IF files = {} THEN entries
    ELSE LET file == CHOOSE f \in files : TRUE
         IN  addFilesToZipKeepsPrefix(addFile(entries, file, Bytes), files \ {file},
                                      sourceDirectory)

RECURSIVE addFilesToZip(_, _, _)
\* Packager.addFilesToZip: every file at its path relative to the source root
addFilesToZip(entries, files, sourceDirectory) ==
    IF files = {} THEN entries
    ELSE LET file == CHOOSE f \in files : TRUE
         IN  addFilesToZip(addFile(entries, pathRelative(sourceDirectory, file), Bytes),
                           files \ {file}, sourceDirectory)

\* Packager.getFiles
getFiles(files, root, options) ==
    {file \in find(files, root) : ~isIgnored(file, options)}

\* the build info Packager.writeBuildInfo assembles
buildInfoOf(prj) ==
    [name |-> prj.name, version |-> prj.version, main |-> PackagePathReplace(prj.main),
     pm |-> prj.pm, deps |-> prj.deps]

\* name of the manifest entry Packager.writeBuildInfo adds
PackagerBuildFile == <<"typhon.build.json">>

\* path.join(distDir, packagingName)
archivePath(prj) == pathJoin(S_target, prj.name \o S_typh)

\* package() rejects: logger.failBuild, then the error reaches the command
PackageFails ==
    /\ pc' = "exit"
    /\ outcome' = "failed"

\* a validation that warns about a plugin project and returns
validateProjectWarns ==
    /\ pc = "validateProject"
    /\ IF getBoolean(project.plugin, FALSE)
       THEN pc' = "exit" /\ outcome' = "ok"
       ELSE pc' = "initializePackage" /\ outcome' = outcome
    /\ UNCHANGED <<vendorVars, libVars>>
    /\ UNCHANGED <<project, diskVars, commandsRun, cmd, pluginVars, packagerVars, runner>>

validateProject ==
    /\ pc = "validateProject"
    /\ IF getBoolean(project.plugin, FALSE)
       THEN PackageFails
       ELSE pc' = "initializePackage" /\ outcome' = outcome
    /\ UNCHANGED <<vendorVars, libVars>>
    /\ UNCHANGED <<project, diskVars, commandsRun, cmd, pluginVars, packagerVars, runner>>

\* initializePackage: prepareEnvironment creates the dist directory
initializePackage ==
    /\ pc = "initializePackage"
    /\ \E ok \in BOOLEAN :
         IF ok
         THEN /\ dirs' = dirs \cup {S_target}
              /\ effects' = effects \cup {"distDir"}
              /\ pc' = "processSourceFiles"
              /\ outcome' = outcome
         ELSE /\ dirs' = dirs
              /\ effects' = effects
              /\ PackageFails
    /\ UNCHANGED <<vendorVars, libVars>>
    /\ UNCHANGED <<project, archives, extracted, commandsRun, cmd, pluginVars, zip,
                   packageCalls, runner>>

\* processSourceFiles: scan both roots, add the files that survive the filter
processSourceFiles ==
    /\ pc = "processSourceFiles"
    /\ effects' = effects \cup {"scan"}
    /\ zip' = addFilesToZip(
                  addFilesToZip(zip, getFiles(project.files, "javascript", DefaultOptions),
                                sourceDir("javascript")),
                  getFiles(project.files, "resources", DefaultOptions),
                  sourceDir("resources"))
    /\ pc' = "writeBuildInfo"
    /\ UNCHANGED <<vendorVars, libVars>>
    /\ UNCHANGED <<project, diskVars, commandsRun, cmd, outcome, pluginVars, packageCalls,
                   runner>>

writeBuildInfo ==
    /\ pc = "writeBuildInfo"
    /\ zip' = addFile(zip, PackagerBuildFile, JSONstringify(buildInfoOf(project)))
    /\ effects' = effects \cup {"manifest"}
    /\ pc' = "createArchive"
    /\ UNCHANGED <<vendorVars, libVars>>
    /\ UNCHANGED <<project, diskVars, commandsRun, cmd, outcome, pluginVars, packageCalls,
                   runner>>

\* createArchive, displaySummary, finishBuild
createArchive ==
    /\ pc = "createArchive"
    /\ \E ok \in BOOLEAN :
         IF ok
         THEN /\ archives' = [archives EXCEPT ![archivePath(project)] = ZipFile(zip)]
              /\ effects' = effects \cup {"archive"}
              /\ pc' = "exit"
              /\ outcome' = "ok"
         ELSE /\ archives' = archives
              /\ effects' = effects
              /\ PackageFails
    /\ UNCHANGED <<vendorVars, libVars>>
    /\ UNCHANGED <<project, dirs, extracted, commandsRun, cmd, pluginVars, zip, packageCalls,
                   runner>>

----------------------------------------------------------------------------
(* run *)

\* _TYPHON_HOMEDIR_PATH_: the absolute path of ~/.typhon
S_home == <<"/", "h">>
\* directories under ~/.typhon
S_cache == S_home \o <<"/", "c", "a", "c", "h", "e">>
S_vendor == S_home \o <<"/", "v", "e", "n", "d", "o", "r">>
S_node_modules == <<"n", "o", "d", "e", "_", "m", "o", "d", "u", "l", "e", "s">>

RECURSIVE resolveSegments(_, _)
\* the segments of a path taken one by one: an empty segment and "." are
\* skipped, ".." leaves the directory reached so far
resolveSegments(reached, segments) ==
    IF segments = <<>> THEN reached
    ELSE LET segment == Head(segments)
             next == IF segment = <<>> \/ segment = <<".">> THEN reached
                     ELSE IF segment = <<".", ".">>
                     THEN SubSeq(reached, 1, Len(reached) - 1)
                     ELSE Append(reached, segment)
         IN  resolveSegments(next, Tail(segments))

\* jetpack.path(base, part): path.resolve of an absolute base and a part
pathResolve(base, part) ==
    LET from == IF part # <<>> /\ Head(part) = "/" THEN part ELSE base \o S_sep \o part
    IN  S_sep \o join(resolveSegments(<<>>, split(from, "/")), S_sep)

\* a cache that hands out one directory for every name
ensureCacheDirectoryShared(name) == S_cache

\* CachingManager.ensureCacheDirectory: the path it creates and returns
ensureCacheDirectory(name) == pathResolve(S_cache, name)

\* the directory the process was started in
S_cwd == <<"/", "w">>
\* fs-jetpack read: the text of the file, undefined when there is none
read(disk, filePath) ==
    IF filePath \in DOMAIN disk THEN disk[filePath] ELSE Undefined

\* fs-jetpack exists
exists(disk, filePath) == filePath \in DOMAIN disk

\* fs-jetpack write: the file holds the text afterwards
writeText(disk, filePath, text) ==
    [f \in DOMAIN disk \cup {filePath} |-> IF f = filePath THEN text ELSE disk[f]]

\* CachingManager.retrieveOrCreateCacheFile: what it returns and the disk it
\* leaves; the read goes to the cache directory, the write to the file name as
\* given, which fs-jetpack resolves against the working directory
retrieveOrCreateCacheFile(disk, fileName, data) ==
    LET cachedContent == read(disk, pathResolve(S_cache, fileName))
        given == IF data = Undefined THEN "" ELSE data
    IN  IF ~exists(disk, pathResolve(S_cache, fileName))
           \/ cachedContent = Undefined \/ cachedContent = ""
        THEN [result |-> given,
              disk |-> writeText(disk, pathResolve(S_cwd, fileName), given)]
        ELSE [result |-> cachedContent, disk |-> disk]

\* a conversion that passes the ranges on as they are
dependenciesToArrayKeepsRange(deps) ==
    [i \in 1..Len(deps) |-> [name |-> deps[i].name, version |-> deps[i].range]]

\* TyphRunner.dependenciesToArray: name@version, every "^" of the range removed
dependenciesToArray(deps) ==
    [i \in 1..Len(deps) |->
        [name |-> deps[i].name,
         version |-> SelectSeq(deps[i].range, LAMBDA c : c # "^")]]

\* an install command that falls back to npm
getInstallCommandDefaultsToNpm(pm, dirPath, deps) ==
    CASE pm = "pnpm" -> [bin |-> "pnpm", flag |-> "--prefix", dir |-> dirPath, deps |-> deps]
      [] pm = "yarn" ->
           [bin |-> "yarn", flag |-> "--modules-folder",
            dir |-> dirPath \o S_sep \o S_node_modules, deps |-> deps]
      [] OTHER -> [bin |-> "npm", flag |-> "--prefix", dir |-> dirPath, deps |-> deps]

\* TyphRunner.getInstallCommand: the command line by its parts, NoCommand for null
getInstallCommand(pm, dirPath, deps) ==
    CASE pm = "pnpm" -> [bin |-> "pnpm", flag |-> "--prefix", dir |-> dirPath, deps |-> deps]
      [] pm = "yarn" ->
           [bin |-> "yarn", flag |-> "--modules-folder",
            dir |-> dirPath \o S_sep \o S_node_modules, deps |-> deps]
      [] pm = "npm" -> [bin |-> "npm", flag |-> "--prefix", dir |-> dirPath, deps |-> deps]
      [] OTHER -> NoCommand

\* new TyphRunner(): the cache root and the vendor directory are made sure of
TyphRunnerConstructed == dirs \cup {S_cache, S_vendor}

\* VendorStore.getInstance(): the process's first call constructs the store,
\* and the constructor ends with ensure()
getInstance(file) == ensure(file, NewVendorMap)

\* RunCommand.execute up to the call of runTyph
RunExecute ==
    /\ pc = "ready"
    /\ cmd' = "run"
    /\ \E file \in RunArgs :
         /\ runner' = [NewRunner EXCEPT !.file = file]
         /\ IF ~endsWith(file, S_typh) \/ archives[file].kind = "dir"
            THEN \* the error is logged and execute returns
                 /\ pc' = "exit"
                 /\ outcome' = "refused"
                 /\ UNCHANGED <<dirs, invoked, published, canceled, vendorVars>>
            ELSE LET ev == processEvent(plugins, "run")
                     vendor == getInstance(vendorFile)
                 IN  /\ dirs' = TyphRunnerConstructed
                     /\ vendorFile' = vendor.file
                     /\ vendorMap' = vendor.map
                     /\ invoked' = ev.invoked
                     /\ published' = Append(published, "run")
                     /\ canceled' = (ev.result /\ ~ev.thrown)
                     /\ IF ev.thrown
                        THEN pc' = "exit" /\ outcome' = "failed"
                        ELSE pc' = "runTyph" /\ outcome' = outcome
    /\ UNCHANGED libVars
    /\ UNCHANGED <<project, archives, extracted, commandsRun, plugins, loading, packagerVars>>

\* a caller of the library: new TyphRunner().runTyph(file)
CallRunTyph ==
    /\ pc = "ready"
    /\ cmd' = "api"
    /\ \E file \in RunArgs : runner' = [NewRunner EXCEPT !.file = file]
    /\ dirs' = TyphRunnerConstructed
    /\ LET vendor == getInstance(vendorFile)
       IN  vendorFile' = vendor.file /\ vendorMap' = vendor.map
    /\ pc' = "runTyph"
    /\ UNCHANGED libVars
    /\ UNCHANGED <<project, archives, extracted, commandsRun, outcome, pluginVars,
                   packagerVars>>

\* runTyph throws: the promise it returned rejects and the command fails
RunTyphFails ==
    /\ pc' = "exit"
    /\ outcome' = "failed"

\* runTyph: the check of the extension
runTyph ==
    /\ pc = "runTyph"
    /\ IF ~endsWith(runner.file, S_typh)
       THEN RunTyphFails
       ELSE pc' = "openArchive" /\ outcome' = outcome
    /\ UNCHANGED <<vendorVars, libVars>>
    /\ UNCHANGED <<project, diskVars, commandsRun, cmd, pluginVars, packagerVars, runner>>

\* runTyph: new AdmZip(file) throws unless a zip file is there
openArchive ==
    /\ pc = "openArchive"
    /\ IF archives[runner.file].kind # "zip"
       THEN RunTyphFails /\ runner' = runner
       ELSE /\ runner' = [runner EXCEPT !.opened = TRUE,
                                        !.entries = archives[runner.file].entries]
            /\ pc' = "readManifest"
            /\ outcome' = outcome
    /\ UNCHANGED <<vendorVars, libVars>>
    /\ UNCHANGED <<project, diskVars, commandsRun, cmd, pluginVars, packagerVars>>

\* a manifest read that falls back to an empty build info
readManifestNoCheck ==
    /\ pc = "readManifest"
    /\ LET mainEntry == getEntry(runner.entries, TyphonBuildFile)
       IN  runner' = [runner EXCEPT
                        !.manifestRead = TRUE,
                        !.buildInfo = IF mainEntry = 0 THEN NoInfo
                                      ELSE JSONparse(runner.entries[mainEntry].data)]
    /\ pc' = "ensureCacheDirectory"
    /\ UNCHANGED <<vendorVars, libVars>>
    /\ UNCHANGED <<project, diskVars, commandsRun, cmd, outcome, pluginVars, packagerVars>>

\* runTyph: zip.getEntry(TyphonBuildFile) and JSON.parse of its data
readManifest ==
    /\ pc = "readManifest"
    /\ LET mainEntry == getEntry(runner.entries, TyphonBuildFile)
       IN  IF mainEntry = 0
           THEN RunTyphFails /\ runner' = runner
           ELSE IF ~runner.entries[mainEntry].data.valid
           THEN RunTyphFails /\ runner' = runner
           ELSE /\ runner' = [runner EXCEPT !.manifestRead = TRUE,
                                  !.buildInfo = JSONparse(runner.entries[mainEntry].data)]
                /\ pc' = "ensureCacheDirectory"
                /\ outcome' = outcome
    /\ UNCHANGED <<vendorVars, libVars>>
    /\ UNCHANGED <<project, diskVars, commandsRun, cmd, pluginVars, packagerVars>>

\* runTyph: the cache directory `<name>-cached` is obtained
obtainCacheDirectory ==
    /\ pc = "ensureCacheDirectory"
    /\ LET dirPath == ensureCacheDirectory(runner.buildInfo.name \o S_cached)
       IN  /\ dirs' = dirs \cup {dirPath}
           /\ runner' = [runner EXCEPT !.dirPath = dirPath]
    /\ pc' = "launchExtract"
    /\ UNCHANGED <<vendorVars, libVars>>
    /\ UNCHANGED <<project, archives, extracted, commandsRun, cmd, outcome, pluginVars,
                   packagerVars>>

\* runTyph: this.extract(zip, dirPath) starts zip.extractAllToAsync
launchExtract ==
    /\ pc = "launchExtract"
    /\ runner' = [runner EXCEPT !.extract = "running"]
    /\ pc' = "launchInstall"
    /\ UNCHANGED <<vendorVars, libVars>>
    /\ UNCHANGED <<project, diskVars, commandsRun, cmd, outcome, pluginVars, packagerVars>>

\* an installation that is launched once the extraction has finished
launchInstallAfterExtract ==
    /\ pc = "launchInstall"
    /\ runner.extract = "done"
    /\ runner' = [runner EXCEPT !.install = "running"]
    /\ pc' = "awaitAll"
    /\ UNCHANGED <<vendorVars, libVars>>
    /\ UNCHANGED <<project, diskVars, commandsRun, cmd, outcome, pluginVars, packagerVars>>

\* an installation that spawns the installer even without a command
launchInstallSpawnsAnyway ==
    /\ pc = "launchInstall"
    /\ LET installCmd == getInstallCommand(runner.buildInfo.pm, S_vendor,
                                           dependenciesToArray(runner.buildInfo.deps))
           vendor == ensure(vendorFile, vendorMap)
       IN  /\ vendorFile' = vendor.file
           /\ vendorMap' = vendor.map
           /\ runner' = [runner EXCEPT !.installCmd = installCmd, !.install = "running"]
    /\ pc' = "awaitAll"
    /\ UNCHANGED libVars
    /\ UNCHANGED <<project, diskVars, commandsRun, cmd, outcome, pluginVars, packagerVars>>

\* runTyph: this.installDependencies(...) runs up to its await: it throws
\* when there is no install command, otherwise the installer is spawned
launchInstall ==
    /\ pc = "launchInstall"
    /\ LET installCmd == getInstallCommand(runner.buildInfo.pm, S_vendor,
                                           dependenciesToArray(runner.buildInfo.deps))
           vendor == ensure(vendorFile, vendorMap)
       IN  /\ vendorFile' = vendor.file
           /\ vendorMap' = vendor.map
           /\ runner' = [runner EXCEPT
                           !.installCmd = installCmd,
                           !.install = IF installCmd.bin = "null" THEN "failed"
                                       ELSE "running"]
    /\ pc' = "awaitAll"
    /\ UNCHANGED libVars
    /\ UNCHANGED <<project, diskVars, commandsRun, cmd, outcome, pluginVars, packagerVars>>

\* callbacks run only while runTyph is suspended or has settled
Suspended == pc \in {"awaitAll", "awaitMain", "exit"}

\* the callback of extractAllToAsync, without an error
extractResolve ==
    /\ Suspended
    /\ runner.extract = "running"
    /\ runner' = [runner EXCEPT !.extract = "done"]
    /\ extracted' = extracted \cup
          {[dir |-> runner.dirPath, entryName |-> runner.entries[i].entryName] :
              i \in 1..Len(runner.entries)}
    /\ UNCHANGED <<vendorVars, libVars>>
    /\ UNCHANGED <<project, archives, dirs, commandsRun, pc, cmd, outcome, pluginVars,
                   packagerVars>>

\* the callback of extractAllToAsync, with an error
extractReject ==
    /\ Suspended
    /\ runner.extract = "running"
    /\ runner' = [runner EXCEPT !.extract = "failed"]
    /\ UNCHANGED <<vendorVars, libVars>>
    /\ UNCHANGED <<project, diskVars, commandsRun, pc, cmd, outcome, pluginVars,
                   packagerVars>>

\* what an installer that saves its arguments leaves in package.json: each
\* specifier under its name, as a caret range
installerSaves(file, specifiers) ==
    write(addDependencies(file.dependencies,
                          [i \in 1..Len(specifiers) |->
                              [name |-> specifiers[i].name,
                               range |-> <<"^">> \o specifiers[i].version]]))

\* the installer exits with code 0; whether it has saved the packages in the
\* package.json of the vendor directory is its own business
installResolve ==
    /\ Suspended
    /\ runner.install = "running"
    /\ runner' = [runner EXCEPT !.install = "done"]
    /\ \E saves \in BOOLEAN :
         vendorFile' = IF saves THEN installerSaves(vendorFile, runner.installCmd.deps)
                       ELSE vendorFile
    /\ UNCHANGED <<vendorMap, libVars>>
    /\ UNCHANGED <<project, diskVars, commandsRun, pc, cmd, outcome, pluginVars,
                   packagerVars>>

\* the installer exits with another code, or cannot be spawned
installReject ==
    /\ Suspended
    /\ runner.install = "running"
    /\ runner' = [runner EXCEPT !.install = "failed"]
    /\ UNCHANGED <<vendorVars, libVars>>
    /\ UNCHANGED <<project, diskVars, commandsRun, pc, cmd, outcome, pluginVars,
                   packagerVars>>

\* an await that goes on once both have settled, whatever the result
awaitAllSettled ==
    /\ pc = "awaitAll"
    /\ runner.extract \in {"done", "failed"}
    /\ runner.install \in {"done", "failed"}
    /\ pc' = "runMain"
    /\ UNCHANGED <<vendorVars, libVars>>
    /\ UNCHANGED <<project, diskVars, commandsRun, cmd, outcome, pluginVars, packagerVars,
                   runner>>

\* an await that goes on with the first of the two to fulfil
awaitAllRace ==
    /\ pc = "awaitAll"
    /\ IF runner.extract = "failed" \/ runner.install = "failed"
       THEN RunTyphFails
       ELSE /\ runner.extract = "done" \/ runner.install = "done"
            /\ pc' = "runMain"
            /\ outcome' = outcome
    /\ UNCHANGED <<vendorVars, libVars>>
    /\ UNCHANGED <<project, diskVars, commandsRun, cmd, pluginVars, packagerVars, runner>>

\* an await that reports a failure only once both have settled
awaitAllWaitsForBoth ==
    /\ pc = "awaitAll"
    /\ runner.extract \in {"done", "failed"}
    /\ runner.install \in {"done", "failed"}
    /\ IF runner.extract = "failed" \/ runner.install = "failed"
       THEN RunTyphFails
       ELSE pc' = "runMain" /\ outcome' = outcome
    /\ UNCHANGED <<vendorVars, libVars>>
    /\ UNCHANGED <<project, diskVars, commandsRun, cmd, pluginVars, packagerVars, runner>>

\* runTyph: await Promise.all([...]) rejects with the first rejection and
\* fulfils when both have fulfilled
awaitAll ==
    /\ pc = "awaitAll"
    /\ IF runner.extract = "failed" \/ runner.install = "failed"
       THEN RunTyphFails
       ELSE /\ runner.extract = "done"
            /\ runner.install = "done"
            /\ pc' = "runMain"
            /\ outcome' = outcome
    /\ UNCHANGED <<vendorVars, libVars>>
    /\ UNCHANGED <<project, diskVars, commandsRun, cmd, pluginVars, packagerVars, runner>>

\* runTyph: runMain spawns `node <dirPath>/<main>`
runMain ==
    /\ pc = "runMain"
    /\ runner' = [runner EXCEPT
                    !.main = "running",
                    !.mainCmd = [file |-> pathJoin(runner.dirPath, runner.buildInfo.main),
                                 NODE_PATH |-> pathJoin(S_vendor, S_node_modules)]]
    /\ pc' = "awaitMain"
    /\ UNCHANGED <<vendorVars, libVars>>
    /\ UNCHANGED <<project, diskVars, commandsRun, cmd, outcome, pluginVars, packagerVars>>

\* a run that reports success whatever the main file's exit code
mainExitReportsSuccess ==
    /\ pc = "awaitMain"
    /\ runner.main = "running"
    /\ \E ok \in BOOLEAN :
         runner' = [runner EXCEPT !.main = IF ok THEN "done" ELSE "failed"]
    /\ outcome' = "ok"
    /\ pc' = "exit"
    /\ UNCHANGED <<vendorVars, libVars>>
    /\ UNCHANGED <<project, diskVars, commandsRun, cmd, pluginVars, packagerVars>>

\* the main file exits: code 0 fulfils runTyph, anything else rejects it
mainExit ==
    /\ pc = "awaitMain"
    /\ runner.main = "running"
    /\ \E ok \in BOOLEAN :
         /\ runner' = [runner EXCEPT !.main = IF ok THEN "done" ELSE "failed"]
         /\ outcome' = IF ok THEN "ok" ELSE "failed"
    /\ pc' = "exit"
    /\ UNCHANGED <<vendorVars, libVars>>
    /\ UNCHANGED <<project, diskVars, commandsRun, cmd, pluginVars, packagerVars>>

----------------------------------------------------------------------------
(* The next CLI process: nothing in memory survives, the disk does *)

NewProcess ==
    /\ pc = "exit"
    /\ runner.extract # "running"
    /\ runner.install # "running"
    /\ commandsRun + 1 < MaxCommands
    /\ commandsRun' = commandsRun + 1
    /\ pc' = "load"
    /\ cmd' = "none"
    /\ outcome' = "pending"
    /\ project' = NoProject
    /\ plugins' = <<>>
    /\ invoked' = <<>>
    /\ published' = <<>>
    /\ canceled' = FALSE
    /\ loading' = NoLoading
    /\ zip' = <<>>
    /\ packageCalls' = 0
    /\ effects' = {}
    /\ runner' = NewRunner
    /\ vendorMap' = NewVendorMap
    /\ UNCHANGED <<diskVars, vendorFile, libVars>>

Next ==
    \/ LoadCommands
    \/ UnhandledRejection
    \/ BuildExecute
    \/ validateProject
    \/ initializePackage
    \/ processSourceFiles
    \/ writeBuildInfo
    \/ createArchive
    \/ RunExecute
    \/ CallRunTyph
    \/ runTyph
    \/ openArchive
    \/ readManifest
    \/ obtainCacheDirectory
    \/ launchExtract
    \/ launchInstall
    \/ extractResolve
    \/ extractReject
    \/ installResolve
    \/ installReject
    \/ awaitAll
    \/ runMain
    \/ mainExit
    \/ NewProcess

Spec == Init /\ [][Next]_vars

----------------------------------------------------------------------------
(* A program that uses the library: it calls the exported classes directly *)

\* values of buildinfo.packageManager: supported, unsupported, missing
PackageManagers == {"npm", "pnpm", "yarn", "bun", "NPM", "undefined"}

DepNames == {"left-pad", "chalk"}
Ranges == {<<"^", "1", ".", "3", ".", "0">>, <<"^", "2">>, <<"1", ".", "0">>}

\* dependency maps of up to MaxDeps entries: no name twice
DependencyMaps ==
    {d \in SeqsUpTo([name : DepNames, range : Ranges], MaxDeps) :
        \A i, j \in 1..Len(d) : d[i].name = d[j].name => i = j}

\* the program has imported the library
InitLib == Init

\* runner.getInstallCommand(pm, dirPath, deps)
CallGetInstallCommand ==
    /\ \E pm \in PackageManagers, dirPath \in {S_vendor, S_cache}, d \in DependencyMaps :
         LET deps == dependenciesToArray(d)
         IN  call' = [fn |-> "getInstallCommand", args |-> <<pm, dirPath, deps>>,
                      result |-> getInstallCommand(pm, dirPath, deps)]
    /\ UNCHANGED <<cliVars, vendorVars, textFiles, race>>

\* runner.dependenciesToArray(dependencies)
CallDependenciesToArray ==
    /\ \E d \in DependencyMaps :
         call' = [fn |-> "dependenciesToArray", args |-> d,
                  result |-> dependenciesToArray(d)]
    /\ UNCHANGED <<cliVars, vendorVars, textFiles, race>>

\* a tree with a directory an ignore fragment names
SourceTreeSecret == {[root |-> "javascript", path |-> <<"index.js">>],
                     [root |-> "javascript", path |-> <<"secret", "key.js">>],
                     [root |-> "javascript", path |-> <<"test", "spec.js">>],
                     [root |-> "resources", path |-> <<"secret.txt">>]}

\* options of a Packager: ignore holds fragments or whole paths
PackagerOptions ==
    [excludeTests : BOOLEAN,
     ignore : {{}, {<<"secret">>}, {<<"src", "main", "javascript", "index.js">>},
               {<<"secret">>, <<"src", "main", "resources", "secret.txt">>}}]

\* project.loadPackager(options): what its getFiles keeps of a source root
CallGetFiles ==
    /\ \E files \in {SourceTree, SourceTreeNoTests, SourceTreeSecret},
          root \in {"javascript", "resources"}, options \in PackagerOptions :
         call' = [fn |-> "getFiles", args |-> <<files, root, options>>,
                  result |-> getFiles(files, root, options)]
    /\ UNCHANGED <<cliVars, vendorVars, textFiles, race>>

S_js == <<".", "j", "s">>
\* values of build.main: a plain file name, dotted names with and without an
\* extension, a name without a dot, nothing
EntryPoints ==
    {S_index_js, S_com_Main, S_app, <<>>, <<"c", "o", "m", ".">> \o S_index_js,
     <<"a", ".", "b", ".", "c">>}

\* PackagePath.replace(main)
CallPackagePathReplace ==
    /\ \E main \in EntryPoints :
         call' = [fn |-> "PackagePath.replace", args |-> main,
                  result |-> PackagePathReplace(main)]
    /\ UNCHANGED <<cliVars, vendorVars, textFiles, race>>

\* TyphonPluginManager.getInstance().test(plugin)
CallTest ==
    /\ \E plugin \in Plugins :
         LET done == test(plugins, plugin)
         IN  /\ call' = [fn |-> "test", args |-> <<plugin>>, result |-> done]
             /\ plugins' = done.plugins
    /\ UNCHANGED <<vendorVars, textFiles, race>>
    /\ UNCHANGED <<project, diskVars, commandsRun, pc, cmd, outcome, invoked, published,
                   canceled, loading, packagerVars, runner>>

NextLib ==
    \/ CallGetInstallCommand
    \/ CallDependenciesToArray
    \/ CallGetFiles
    \/ CallPackagePathReplace
    \/ CallTest

SpecLib == InitLib /\ [][NextLib]_vars

----------------------------------------------------------------------------
(* A program that uses the VendorStore *)

\* the ranges given to the store: carets, as its type asks
VendorRanges == {<<"^", "1", ".", "3", ".", "0">>, <<"^", "2">>}

\* vendor/package.json as earlier processes can have left it
VendorFiles == {NoVendorFile, write(NewVendorMap), write(LeftPad)}

\* the program has obtained the VendorStore: VendorStore.getInstance()
InitVendor ==
    /\ InitCli
    /\ call = NoCall
    /\ textFiles = NoFiles
    /\ race = NoRace
    /\ \E file \in VendorFiles :
         LET vendor == getInstance(file)
         IN  vendorFile = vendor.file /\ vendorMap = vendor.map

\* store.addDependency(dependency, version)
VendorAddDependency ==
    /\ \E dependency \in DepNames, version \in VendorRanges :
         /\ vendorMap' = addDependency(vendorMap, dependency, version)
         /\ call' = [fn |-> "addDependency", args |-> <<dependency, version>>,
                      result |-> <<>>]
    /\ UNCHANGED <<cliVars, vendorFile, textFiles, race>>

\* store.addDependencies(...dependencies)
VendorAddDependencies ==
    /\ \E dependencies \in SeqsUpTo([name : DepNames, range : VendorRanges], MaxDeps) :
         /\ vendorMap' = addDependencies(vendorMap, dependencies)
         /\ call' = [fn |-> "addDependencies", args |-> dependencies, result |-> <<>>]
    /\ UNCHANGED <<cliVars, vendorFile, textFiles, race>>

\* store.ensure()
VendorEnsure ==
    /\ LET vendor == ensure(vendorFile, vendorMap)
       IN  /\ vendorFile' = vendor.file
           /\ vendorMap' = vendor.map
           /\ call' = [fn |-> "ensure", args |-> <<>>, result |-> vendor.map]
    /\ UNCHANGED <<cliVars, textFiles, race>>

\* store.write()
VendorWrite ==
    /\ vendorFile' = write(vendorMap)
    /\ call' = [fn |-> "write", args |-> <<>>, result |-> <<>>]
    /\ UNCHANGED <<cliVars, vendorMap, textFiles, race>>

NextVendor ==
    \/ VendorAddDependency
    \/ VendorAddDependencies
    \/ VendorEnsure
    \/ VendorWrite

SpecVendor == InitVendor /\ [][NextVendor]_vars

----------------------------------------------------------------------------
(* A program that uses the disk cache: the cache directory starts with some
   files in it, and the program asks for files by name. *)
S_a == <<"a">>
S_b == <<"b">>
CacheNames == {S_a, S_b, S_cache \o S_sep \o S_a}
CacheData == {Undefined, "", "x", "y"}
CacheDisks ==
    {NoFiles,
     writeText(NoFiles, pathResolve(S_cache, S_a), "old"),
     writeText(NoFiles, pathResolve(S_cache, S_b), ""),
     writeText(NoFiles, pathResolve(S_cwd, S_a), "here")}

InitCache ==
    /\ InitCli
    /\ vendorFile = NoVendorFile
    /\ vendorMap = NewVendorMap
    /\ call = NoCall
    /\ textFiles \in CacheDisks
    /\ race = NoRace

\* cache.retrieveOrCreateCacheFile(fileName, data)
CallRetrieveOrCreateCacheFile ==
    \E fileName \in CacheNames, data \in CacheData :
        LET done == retrieveOrCreateCacheFile(textFiles, fileName, data)
        IN  /\ textFiles' = done.disk
            /\ call' = [fn |-> "retrieveOrCreateCacheFile",
                        args |-> <<fileName, data>>, result |-> done.result]
            /\ UNCHANGED <<cliVars, vendorVars, race>>

NextCache == CallRetrieveOrCreateCacheFile

SpecCache == InitCache /\ [][NextCache]_vars

----------------------------------------------------------------------------
(* Two Runner processes started at the same time for two projects: each
   builds its VendorStore, calls ensure() again in installDependencies and
   spawns its installer. The processes share ~/.typhon/vendor/package.json and
   nothing else; between two file system calls of one process the other may
   run. *)
RaceProcs == {1, 2}
IsOdd == <<[name |-> "is-odd", range |-> <<"^", "3">>]>>
\* the dependencies of the two manifests
RaceDeps == <<LeftPad, IsOdd>>

RaceProc(deps) ==
    [pc |-> "check1", found |-> FALSE, map |-> NewVendorMap,
     specifiers |-> dependenciesToArray(deps), saved |-> FALSE]

InitRace ==
    /\ InitCli
    /\ vendorFile \in {NoVendorFile, write(NewVendorMap)}
    /\ vendorMap = NewVendorMap
    /\ call = NoCall
    /\ textFiles = NoFiles
    /\ race = [start |-> vendorFile,
               procs |-> [p \in RaceProcs |-> RaceProc(RaceDeps[p])]]

\* a store that keeps the other processes out between its check and its write
lockedDuringEnsure(r, p) ==
    \E q \in RaceProcs \ {p} : r.procs[q].pc \in {"write1", "write2"}

\* whether process p has to wait for another process: ensure() takes no lock
locked(r, p) == FALSE

\* ensure(): exists(package.json)
raceCheck(p) ==
    LET me == race.procs[p]
    IN  /\ me.pc \in {"check1", "check2"}
        /\ ~locked(race, p)
        /\ race' = [race EXCEPT !.procs[p] =
                       [me EXCEPT !.found = vendorFile.exists,
                                  !.pc = IF vendorFile.exists
                                         THEN (IF me.pc = "check1" THEN "read1" ELSE "read2")
                                         ELSE (IF me.pc = "check1" THEN "write1" ELSE "write2")]]
        /\ UNCHANGED <<cliVars, vendorVars, call, textFiles>>

\* ensure(): this.write(), reached when the file was not there
raceWrite(p) ==
    LET me == race.procs[p]
    IN  /\ me.pc \in {"write1", "write2"}
        /\ ~locked(race, p)
        /\ vendorFile' = write(me.map)
        /\ race' = [race EXCEPT !.procs[p].pc = IF me.pc = "write1" THEN "read1" ELSE "read2"]
        /\ UNCHANGED <<cliVars, vendorMap, call, textFiles>>

\* ensure(): this.vendorMap = JSON.parse(read(package.json))
raceRead(p) ==
    LET me == race.procs[p]
    IN  /\ me.pc \in {"read1", "read2"}
        /\ ~locked(race, p)
        /\ race' = [race EXCEPT !.procs[p] =
                       [me EXCEPT !.map = vendorFile.dependencies,
                                  !.pc = IF me.pc = "read1" THEN "check2" ELSE "install"]]
        /\ UNCHANGED <<cliVars, vendorVars, call, textFiles>>

\* the installer of process p exits with code 0, having saved or not
raceInstall(p) ==
    LET me == race.procs[p]
    IN  /\ me.pc = "install"
        /\ ~locked(race, p)
        /\ \E saves \in BOOLEAN :
             /\ vendorFile' = IF saves THEN installerSaves(vendorFile, me.specifiers)
                               ELSE vendorFile
             /\ race' = [race EXCEPT !.procs[p] = [me EXCEPT !.saved = saves, !.pc = "done"]]
        /\ UNCHANGED <<cliVars, vendorMap, call, textFiles>>

RaceCheck == \E p \in RaceProcs : raceCheck(p)
RaceWrite == \E p \in RaceProcs : raceWrite(p)
RaceRead == \E p \in RaceProcs : raceRead(p)
RaceInstall == \E p \in RaceProcs : raceInstall(p)

NextRace ==
    \/ RaceCheck
    \/ RaceWrite
    \/ RaceRead
    \/ RaceInstall

SpecRace == InitRace /\ [][NextRace]_vars

\* what one Runner alone leaves in package.json: the two calls of ensure(),
\* then its installer
runAlone(file, specifiers, saves) ==
    LET first == ensure(file, NewVendorMap)
        second == ensure(first.file, first.map)
    IN  IF saves THEN installerSaves(second.file, specifiers) ELSE second.file

----------------------------------------------------------------------------
(* Properties *)

\* the name ends in ".typh": it is some prefix followed by the extension
EndsInTyph(name) == \E n \in 0..Len(name) : name = SubSeq(name, 1, n) \o S_typh

\* the paths the Packager writes archives to
PackagerPaths == {archivePath(prj) : prj \in Projects}

\* no step of the Runner after the manifest read has started
RunnerUntouched ==
    /\ runner.dirPath = <<>>
    /\ runner.extract = "idle"
    /\ runner.install = "idle"
    /\ runner.main = "idle"

\* C1: once an event has been processed, processEvent has returned true if and
\* only if at least one registered plugin's handler signals cancellation.
C1_TrueIffSomePluginCancels ==
    published # <<>> =>
        (canceled <=> \E i \in 1..Len(plugins) : plugins[i].cancels)

\* C2: with zero registered plugins processEvent returns false, whatever the
\* event, and invokes no handler.
C2_NoPluginsNotCancelled ==
    (published # <<>> /\ plugins = <<>>) => (~canceled /\ invoked = <<>>)

C2_Witness == published # <<>> /\ plugins = <<>> /\ ~canceled /\ cmd = "run"

\* the handler the last processEvent invoked threw, so processEvent returned
\* nothing
HandlerThrew == invoked # <<>> /\ plugins[1].throws

\* C3: in the build command the build event is published before packaging;
\* when processEvent reports it cancelled, package() is not invoked and nothing
\* is scanned, created or written; otherwise package() is invoked exactly once.
C3_CancelledBuildSkipsPackaging ==
    cmd = "build" =>
        /\ published = <<"build">>
        /\ canceled => (packageCalls = 0 /\ effects = {} /\ zip = <<>> /\ pc = "exit")
        /\ (~canceled /\ ~HandlerThrew) => packageCalls = 1

C3_Witness == cmd = "build" /\ canceled /\ pc = "exit" /\ packageCalls = 0

\* C4: packaging a project whose buildinfo.plugin is true fails with an error,
\* and before that nothing is scanned, no directory or manifest is created and
\* no archive is written.
C4_PluginProjectRefused ==
    (cmd = "build" /\ project.plugin = "true") =>
        /\ effects = {}
        /\ zip = <<>>
        /\ pc \in {"validateProject", "exit"}
        /\ (pc = "exit" /\ packageCalls > 0) => outcome = "failed"

C4_Witness ==
    /\ cmd = "build"
    /\ project.plugin = "true"
    /\ packageCalls = 1
    /\ pc = "exit"
    /\ outcome = "failed"

\* C5: when the Runner has read the manifest of an archive the Packager wrote,
\* it has found the manifest entry and holds the build info the Packager put
\* into that archive.
C5_ManifestRoundTrip ==
    (runner.opened /\ runner.file \in PackagerPaths /\ pc # "readManifest") =>
        /\ runner.manifestRead
        /\ JSONstringify(runner.buildInfo) =
              runner.entries[getEntry(runner.entries, PackagerBuildFile)].data

\* C6: the main file is executed only when extraction and installation have
\* both succeeded; when either has failed the main file is not executed and
\* runTyph fails.
C6_MainOnlyAfterBothSucceed ==
    /\ runner.main # "idle" => (runner.extract = "done" /\ runner.install = "done")
    /\ (runner.extract = "failed" \/ runner.install = "failed") =>
          /\ runner.main = "idle"
          /\ pc \notin {"runMain", "awaitMain"}
          /\ pc = "exit" => outcome = "failed"

C6_Witness ==
    /\ runner.extract = "done"
    /\ runner.install = "failed"
    /\ pc = "exit"
    /\ outcome = "failed"

\* C7: the manifest is read before extraction or installation starts, and the
\* main file starts only when extraction and installation have both finished.
C7_RunnerStepOrder ==
    /\ (runner.extract # "idle" \/ runner.install # "idle") =>
          (runner.opened /\ runner.manifestRead)
    /\ runner.main # "idle" =>
          (runner.extract \notin {"idle", "running"} /\ runner.install \notin {"idle", "running"})

C7_Witness == runner.main = "running" /\ runner.manifestRead

\* C8: installation is launched while the extraction is in flight, without
\* waiting for it, and while both are in flight either of them can complete
\* first.
C8_LaunchedTogether ==
    /\ pc = "launchInstall" => (runner.extract = "running" /\ ENABLED launchInstall)
    /\ pc = "awaitAll" => (runner.extract # "idle" /\ runner.install # "idle")
    /\ (runner.extract = "running" /\ runner.install = "running") =>
          (ENABLED extractResolve /\ ENABLED installResolve)

C8_Witness == runner.extract = "running" /\ runner.install = "running"

\* C9: with a file name that does not end in ".typh" the archive is not opened,
\* no cache directory is obtained and nothing is extracted, installed or
\* executed; the run command returns before it publishes the event or builds a
\* Runner, and runTyph fails.
C9_WrongExtensionRejectedFirst ==
    (cmd \in {"run", "api"} /\ ~EndsInTyph(runner.file)) =>
        /\ ~runner.opened
        /\ ~runner.manifestRead
        /\ RunnerUntouched
        /\ pc \in {"runTyph", "exit"}
        /\ cmd = "run" => (pc = "exit" /\ outcome = "refused" /\ published = <<>>)
        /\ (cmd = "api" /\ pc = "exit") => outcome = "failed"

C9_Witness ==
    /\ cmd = "api"
    /\ runner.file = S_ext_typhx
    /\ pc = "exit"
    /\ outcome = "failed"

\* C10: an opened archive without a manifest entry makes runTyph fail, and no
\* cache directory is obtained and nothing is extracted, installed or executed.
C10_MissingManifestRejected ==
    (runner.opened /\ getEntry(runner.entries, TyphonBuildFile) = 0) =>
        /\ ~runner.manifestRead
        /\ RunnerUntouched
        /\ pc \in {"readManifest", "exit"}
        /\ pc = "exit" => outcome = "failed"

C10_Witness ==
    /\ runner.opened
    /\ getEntry(runner.entries, TyphonBuildFile) = 0
    /\ pc = "exit"
    /\ outcome = "failed"

\* C11: getInstallCommand(pm, dir, deps) is a command of that very package
\* manager, for that directory and those specifiers, when pm is npm, pnpm or
\* yarn, and null for every other pm: no default package manager is put in
C11_InstallCommandOnlyForSupported ==
    call.fn = "getInstallCommand" =>
        LET pm == call.args[1]
        IN  IF pm \in {"npm", "pnpm", "yarn"}
            THEN /\ call.result # NoCommand
                 /\ call.result.bin = pm
                 /\ call.result.dir = IF pm = "yarn"
                                      THEN call.args[2] \o S_sep \o S_node_modules
                                      ELSE call.args[2]
                 /\ call.result.deps = call.args[3]
            ELSE call.result = NoCommand

C11_Witness ==
    /\ call.fn = "getInstallCommand"
    /\ call.args[1] = "bun"
    /\ call.args[3] # <<>>
    /\ call.result = NoCommand

\* the package managers getInstallCommand knows
Supported == {"npm", "yarn", "pnpm"}

\* C12: when the manifest's pm is missing or not npm, yarn or pnpm, no install
\* process is ever spawned, no command of another package manager is made, the
\* main file is never executed, and the run ends as failed
C12_UnsupportedPmFails ==
    (runner.manifestRead /\ runner.buildInfo.pm \notin Supported) =>
        /\ runner.install \in {"idle", "failed"}
        /\ runner.installCmd = NoCommand
        /\ runner.main = "idle"
        /\ pc \notin {"runMain", "awaitMain"}
        /\ pc = "exit" => outcome = "failed"

C12_Witness ==
    /\ pc = "exit"
    /\ outcome = "failed"
    /\ runner.manifestRead
    /\ runner.buildInfo.pm = "undefined"
    /\ runner.install = "failed"
    /\ runner.extract = "done"

\* a range without its leading caret
StripCaret(range) ==
    IF range # <<>> /\ Head(range) = "^" THEN Tail(range) ELSE range

Built == cmd = "build" /\ pc = "exit" /\ outcome = "ok" /\ "archive" \in effects

\* names of the entries of an archive, the Packager's manifest aside
payloadNames(entries) ==
    {entries[i].entryName : i \in 1..Len(entries)} \ {PackagerBuildFile}

\* the file lies in a directory named test, at any depth below its root
UnderTestDirectory(f) == \E i \in 1..(Len(f.path) - 1) : f.path[i] = "test"

\* C14 as claimed: the payload entries of an archive built with the default
\* options are exactly the files under the two roots, each at its path from its
\* root
C14_ArchiveHoldsEveryFile ==
    Built =>
        payloadNames(archives[archivePath(project)].entries)
            = {f.path : f \in project.files} \ {PackagerBuildFile}

\* C14 amended: the payload entries of an archive built with the default options
\* are exactly the files under the two roots that are not inside a directory
\* named test, each at its path from its root, without the src/main/<root> prefix
C14_ArchiveHoldsEveryNonTestFile ==
    Built =>
        payloadNames(archives[archivePath(project)].entries)
            = {f.path : f \in {g \in project.files : ~UnderTestDirectory(g)}}
                  \ {PackagerBuildFile}

C14_Witness ==
    /\ Built
    /\ project.files = SourceTree
    /\ payloadNames(archives[archivePath(project)].entries)
           = {<<"index.js">>, <<"assets", "test">>}

\* C15: of the files enumerated under a root, the Packager leaves out exactly
\* those whose path contains an ignore fragment, or, when excludeTests is set,
\* goes through a test directory; every other file is kept for the archive
C15_ExcludedIffFragmentOrTest ==
    call.fn = "getFiles" =>
        LET files == call.args[1]
            root == call.args[2]
            options == call.args[3]
        IN  call.result =
               {file \in find(files, root) :
                   ~(\/ \E pattern \in options.ignore : includes(file, pattern)
                     \/ options.excludeTests /\ includesTestDir(file))}

\* the project of the end-to-end scenario
DemoProject == Prj(S_demo, S_index_js, "npm", LeftPad, "undefined", SourceTree)

\* the Runner has opened the archive the Packager built from the demo project
RunsBuiltDemo ==
    /\ runner.opened
    /\ runner.file = archivePath(DemoProject)
    /\ \E i \in 1..Len(runner.entries) :
          /\ runner.entries[i].entryName = PackagerBuildFile
          /\ runner.entries[i].data = JSONstringify(buildInfoOf(DemoProject))

\* C16: when the run of the archive built from the demo project has ended, and
\* neither the extraction nor the installer failed, the archive was extracted
\* into cache/demo-cached, left-pad@1.3.0 was installed into the vendor
\* directory, and demo-cached/index.js was executed with vendor/node_modules on
\* the module path
C16_DemoEndToEnd ==
    (RunsBuiltDemo /\ pc = "exit" /\ runner.extract # "failed"
        /\ runner.install # "failed") =>
        /\ runner.dirPath = pathJoin(S_cache, S_demo \o S_cached)
        /\ runner.extract = "done"
        /\ runner.install = "done"
        /\ runner.installCmd.dir = S_vendor
        /\ runner.installCmd.deps =
              <<[name |-> "left-pad", version |-> <<"1", ".", "3", ".", "0">>]>>
        /\ runner.main # "idle"
        /\ runner.mainCmd.file =
              pathJoin(pathJoin(S_cache, S_demo \o S_cached), S_index_js)
        /\ runner.mainCmd.NODE_PATH = pathJoin(S_vendor, S_node_modules)

\* the entry point is a plain file name with the .js extension: one dot only
PlainJsFile(main) == endsWith(main, S_js) /\ Len(split(main, ".")) = 2

\* C17: PackagePath.replace joins the dot-separated segments but the last into
\* a directory path and appends the last one, and the file name and extension
\* of the entry point stay as declared: a name with the .js extension still has
\* it, and a plain file name such as index.js comes back as it was
C17_FileNamePreserved ==
    call.fn = "PackagePath.replace" =>
        LET main == call.args
            parts == split(main, ".")
        IN  /\ Len(parts) > 1 =>
                  call.result = pathJoin(join(SubSeq(parts, 1, Len(parts) - 1), S_sep),
                                         parts[Len(parts)])
            /\ endsWith(main, S_js) => endsWith(call.result, S_js)
            /\ PlainJsFile(main) => call.result = main

\* the names of a dependency map
Names(map) == {map[i].name : i \in 1..Len(map)}

\* the range a dependency map has for a name it holds
RangeOf(map, name) == map[CHOOSE i \in 1..Len(map) : map[i].name = name].range

\* C18: whatever VendorStore operation is called, a name in the store's
\* dependency map stays in it, and addDependency(name, version) leaves the map
\* with that version for the name and every other entry as it was
C18_AddedNeverRemoved ==
    [][/\ Names(vendorMap) \subseteq Names(vendorMap')
       /\ call'.fn = "addDependency" =>
             /\ call'.args[1] \in Names(vendorMap')
             /\ RangeOf(vendorMap', call'.args[1]) = call'.args[2]
             /\ \A n \in Names(vendorMap) \ {call'.args[1]} :
                   RangeOf(vendorMap', n) = RangeOf(vendorMap, n)]_vars

\* C19: when a run has ended successfully, every dependency name of the
\* manifest it ran is in the dependency map of vendor/package.json
C19_VendorManifestHoldsDeps ==
    (cmd \in {"run", "api"} /\ pc = "exit" /\ outcome = "ok" /\ runner.manifestRead) =>
        /\ vendorFile.exists
        /\ Names(runner.buildInfo.deps) \subseteq Names(vendorFile.dependencies)

\* names a manifest on disk can carry
ManifestNames == {S_demo, S_app, S_dot_demo}

\* the key is a relative path in normal form: no empty segment, no "." or ".."
PlainKey(key) ==
    \A i \in 1..Len(split(key, "/")) :
        split(key, "/")[i] \notin {<<>>, <<".">>, <<".", ".">>}

\* the Runner's step that obtains the cache directory
ObtainsCacheDirectory == pc = "ensureCacheDirectory" /\ pc' = "launchExtract"

\* C20 as claimed: the Runner asks for the directory of the key
\* <manifest.name>-cached; the call gives ~/.typhon/cache/<key>, which exists
\* afterwards, keeps every directory and every file that was there, and is
\* another path than that of any other name
C20_CacheDirectoryPerName ==
    [][ObtainsCacheDirectory =>
          LET key == runner.buildInfo.name \o S_cached
          IN  /\ PlainKey(key) => runner'.dirPath = S_cache \o S_sep \o key
              /\ runner'.dirPath \in dirs'
              /\ dirs \subseteq dirs'
              /\ extracted' = extracted
              /\ \A other \in ManifestNames \ {runner.buildInfo.name} :
                    ensureCacheDirectory(other \o S_cached) # runner'.dirPath]_vars

\* C20 amended: as above, but another path only than that of any other name
\* whose key is, like this one, a relative path in normal form
C20_CacheDirectoryPerPlainName ==
    [][ObtainsCacheDirectory =>
          LET key == runner.buildInfo.name \o S_cached
          IN  /\ PlainKey(key) => runner'.dirPath = S_cache \o S_sep \o key
              /\ runner'.dirPath \in dirs'
              /\ dirs \subseteq dirs'
              /\ extracted' = extracted
              /\ \A other \in ManifestNames \ {runner.buildInfo.name} :
                    (PlainKey(key) /\ PlainKey(other \o S_cached)) =>
                        ensureCacheDirectory(other \o S_cached) # runner'.dirPath]_vars

\* a second run has obtained the directory the first one filled
C20_Witness ==
    /\ pc = "launchExtract"
    /\ commandsRun = 1
    /\ runner.dirPath = S_cache \o S_sep \o S_demo \o S_cached
    /\ [dir |-> runner.dirPath, entryName |-> <<"index.js">>] \in extracted

\* C21: retrieveOrCreateCacheFile(name, data) returns the contents of the
\* cache file when it is there, and otherwise writes data (or the empty
\* string) to that cache file and returns it, so a later call with the same
\* name returns what the first call wrote whatever data it passes: after
\* every call the cache file of that name holds what the call returned, and
\* a call that finds the file returns its contents.
C21_CacheFileHoldsWhatWasReturned ==
    [][call'.fn = "retrieveOrCreateCacheFile" =>
        LET cacheFile == pathResolve(S_cache, call'.args[1])
        IN  /\ exists(textFiles', cacheFile)
            /\ read(textFiles', cacheFile) = call'.result
            /\ exists(textFiles, cacheFile) =>
                   call'.result = read(textFiles, cacheFile)]_vars

\* C22: test(plugin) never throws or rejects: it calls load() and then sends a
\* `test` event to that plugin only; when load() throws or rejects, or the
\* handler throws, it resolves to [false, error], otherwise to
\* [true, undefined]; the plugin is not added to the registry.
C22_TestReturnsFailure ==
    call.fn = "test" =>
        LET plugin == call.args[1]
            fails == plugin.load # "ok" \/ plugin.throws
        IN  /\ ~call.result.thrown
            /\ call.result.ok = ~fails
            /\ call.result.error = Undefined <=> ~fails
            /\ call.result.invoked = IF plugin.load = "ok" THEN <<plugin.name>> ELSE <<>>
            /\ plugins = <<>>

C22_Witness ==
    /\ call.fn = "test"
    /\ call.args[1].throws
    /\ ~call.result.ok
    /\ call.result.error # Undefined

\* the command went on to its pipeline step: package() was called, or runTyph
StepStarted == packageCalls > 0 \/ pc \notin {"load", "ready", "exit"} \/ runner.opened

\* C23: when a plugin's load() throws or rejects, or its event handler throws,
\* the failure reaches the invoking command and the step that would follow,
\* packaging or running, does not start.
C23_PluginFailureAborts ==
    (loading.threw \/ loading.unhandled \/ HandlerThrew) =>
        /\ ~StepStarted
        /\ pc = "exit" => outcome = "failed"

\* C24: registerPlugins on a project directory without a plugin declaration
\* file is a no-op: no error is raised, no load() is called and the registry
\* is left as it was.
C24_NoDeclarationNoOp ==
    (pc # "load" /\ ~loading.exists) =>
        /\ plugins = <<>>
        /\ loading.loads = <<>>
        /\ ~loading.threw /\ ~loading.unhandled
        /\ cmd = "none" => (pc = "ready" /\ outcome = "pending")

C24_Witness == pc = "ready" /\ ~loading.exists /\ plugins = <<>> /\ loading.loads = <<>>

\* C25: when the executed entry file exits with a non-zero code, or cannot be
\* spawned, runTyph rejects and the failure reaches the caller of the run
\* command: the run is never reported as successful, and the entry file is not
\* executed again.
C25_MainFailureReachesCaller ==
    runner.main = "failed" =>
        /\ pc = "exit"
        /\ outcome = "failed"
        /\ ~ENABLED runMain
        /\ ~ENABLED mainExit

C25_Witness ==
    /\ cmd = "run"
    /\ runner.main = "failed"
    /\ runner.extract = "done" /\ runner.install = "done"
    /\ outcome = "failed"

\* C26: a cancellation reported for a published event keeps the step that
\* follows from starting: in the run command, when processEvent("run", ctx)
\* reports cancellation, the Runner is not started, so no archive is opened
\* and nothing is extracted, installed or executed.
C26_CancelledRunNotStarted ==
    (cmd = "run" /\ canceled) =>
        /\ pc = "exit"
        /\ ~runner.opened
        /\ RunnerUntouched

\* the positions of the entries of that name
entriesNamed(entries, entryName) ==
    {i \in 1..Len(entries) : entries[i].entryName = entryName}

\* C27: every archive the Packager produces has exactly one manifest entry at
\* the fixed name, whatever files the code and resource roots hold, a file
\* whose path from its root is the manifest entry's name included, and that
\* entry holds the manifest built from the project configuration.
C27_OneManifestEntry ==
    Built =>
        LET entries == archives[archivePath(project)].entries
        IN  /\ Cardinality(entriesNamed(entries, PackagerBuildFile)) = 1
            /\ \A i \in entriesNamed(entries, PackagerBuildFile) :
                   entries[i].data = JSONstringify(buildInfoOf(project))

C27_Witness ==
    /\ Built
    /\ [root |-> "resources", path |-> PackagerBuildFile] \in project.files
    /\ Cardinality(entriesNamed(archives[archivePath(project)].entries,
                                PackagerBuildFile)) = 1

\* position of the first registered plugin whose handler signals cancellation,
\* or of the last plugin when none does
lastToInvoke(reg) ==
    IF \E i \in 1..Len(reg) : reg[i].cancels
    THEN CHOOSE i \in 1..Len(reg) :
             reg[i].cancels /\ \A j \in 1..(i - 1) : ~reg[j].cancels
    ELSE Len(reg)

\* C28: processEvent hands the event to the registered plugins one after
\* another: when no plugin signals cancellation every registered plugin's
\* handler is invoked exactly once; when some plugin does, every plugin before
\* it in registry order has been invoked and none after it.
C28_DispatchInRegistryOrder ==
    (published # <<>> /\ \A i \in 1..Len(plugins) : ~plugins[i].throws) =>
        invoked = [i \in 1..lastToInvoke(plugins) |-> plugins[i].name]

\* one of the two operations of the Runner has failed
OneFailed == runner.extract = "failed" \/ runner.install = "failed"

\* C30: runTyph reports failure as soon as the first of extraction and
\* installation fails, without waiting for the other and without cancelling
\* it: once one has failed runTyph can reject at once, the operation that is
\* still running can go on to its end and write to the cache directory or the
\* vendor directory after runTyph has rejected, and the main file is not
\* executed for that invocation.
C30_FailsFastLeavesOtherRunning ==
    /\ (pc = "awaitAll" /\ OneFailed) => ENABLED awaitAll
    /\ (pc = "exit" /\ OneFailed) =>
          /\ outcome = "failed"
          /\ runner.main = "idle"
          /\ ~ENABLED runMain
          /\ runner.extract = "running" => ENABLED extractResolve
          /\ runner.install = "running" => ENABLED installResolve

C30_Witness ==
    /\ pc = "exit"
    /\ outcome = "failed"
    /\ runner.install = "failed"
    /\ runner.extract = "running"
    /\ runner.main = "idle"

\* both racing Runners have finished
RaceOver == race.procs # <<>> /\ \A p \in RaceProcs : race.procs[p].pc = "done"

\* package.json after the two runs one after the other, in either order
SerialOutcomes ==
    LET one(p, file) == runAlone(file, race.procs[p].specifiers, race.procs[p].saved)
    IN  {one(2, one(1, race.start)), one(1, one(2, race.start))}

\* package.json as one of the two runs leaves it when the other never ran
AloneOutcomes ==
    {runAlone(NoVendorFile, race.procs[p].specifiers, race.procs[p].saved) : p \in RaceProcs}

\* C29: two Runners running at the same time for different projects race on
\* the vendor manifest, which no lock protects: while one process is between
\* the check and the write of ensure() the other can take its steps, and the
\* manifest the two leave is that of a serial order or that of one run alone,
\* the other run's update being lost.
C29_VendorManifestUnlocked ==
    race.procs # <<>> =>
        /\ \A p \in RaceProcs, q \in RaceProcs :
              (p # q /\ race.procs[p].pc \in {"write1", "write2"}
                     /\ race.procs[q].pc # "done") =>
                  ENABLED (raceCheck(q) \/ raceWrite(q) \/ raceRead(q) \/ raceInstall(q))
        /\ RaceOver => vendorFile \in SerialOutcomes \cup AloneOutcomes

\* an interleaving after which the manifest is what no serial order leaves:
\* both installers have saved, and the first one's dependency is gone
C29_Witness ==
    /\ RaceOver
    /\ \A p \in RaceProcs : race.procs[p].saved
    /\ vendorFile \notin SerialOutcomes
    /\ Names(vendorFile.dependencies) = {"is-odd"}

============================================================================
